---- MODULE Spec2Model ----
(***************************************************************************)
(* Model of the hotel concierge chat widget (src/src/App.tsx, the          *)
(* useLocalStorage-based App): the conversation store, the message         *)
(* submission flow with its webhook call and retry, and the response       *)
(* resolver.                                                               *)
(*                                                                         *)
(* Text is modelled as a sequence of one-character strings, so that trim,  *)
(* emptiness, line splitting and concatenation are computed.  A localized  *)
(* phrase is a one-symbol text "<locale>:<key>".                           *)
(*                                                                         *)
(* React: a handler run by a user event sees the state of the latest       *)
(* render.  A setTimeout callback and the continuation of an await keep    *)
(* the variables of the render that created them; those captured values    *)
(* are stored in the timer and in the call record.                         *)
(***************************************************************************)
EXTENDS Integers, Sequences, FiniteSets, TLC

VARIABLES
    chatMessages,   \* in-memory log: useLocalStorage value (App.tsx:883)
    storage,        \* localStorage entry 'chat-messages': NoItem or a JSON document
    inputValue,     \* text of the input field (App.tsx:884)
    isLoading,      \* App.tsx:885
    locale,         \* current locale code (usePreferredLocale)
    timers,         \* pending 300 ms callbacks of the question buttons, in firing order
    calls,          \* sendMessageToAI invocations awaiting a fetch
    now,            \* Date.now()
    nextCall,       \* number of sendMessageToAI invocations that issued a request
    lastOp,         \* history: the step taken last, whether its handler returned
                    \* early, and how its localStorage write ended
    conv,           \* history of the current conversation (see ConvInit)
    response,       \* the Response handed to parseN8nResponse run on its own
    assistantContentInner,  \* what that run returned (App.tsx:970, 1066)
    cookie,         \* document.cookie: the cookies of the page, in the order listed
    preferredLocale,    \* localStorage entry 'preferredLocale': Null or a string
    navigator,      \* navigator.language and navigator.languages
    isInitialized,  \* LocaleProvider.tsx:59
    warned,         \* argument of the last "Unsupported locale" warning, or Null
    selected,       \* history: the last supported code passed to setLocale,
                    \* whether its localStorage write succeeded, and the
                    \* argument of the last setLocale call
    tab,            \* the browser tab whose App the other variables describe
    otherTab        \* in-memory log of the App in the other tab (TabsSpec)

\* the resolver run on its own (ResolverSpec); within the submission flow the
\* resolver is applied inside the steps that settle a fetch
resolverVars == <<response, assistantContentInner>>

\* the locale provider's stores (LocaleSpec); the chat runs with them at rest
localeVars == <<cookie, preferredLocale, navigator, isInitialized, warned, selected>>

\* a second tab on the same origin (TabsSpec)
tabVars == <<tab, otherTab>>

\* what the steps of the submission flow leave alone
asideVars == <<resolverVars, localeVars, tabVars>>

vars == <<chatMessages, storage, inputValue, isLoading, locale, timers, calls,
          now, nextCall, lastOp, conv, asideVars>>

(***************************************************************************)
(* Bounds                                                                  *)
(***************************************************************************)
MaxInputLen == 1    \* longest text typed into the input field
MaxClock == 1       \* Date.now() ranges over 0..MaxClock
MaxCalls == 2       \* requests issued per page load
MaxTimers == 2      \* question-button timers pending at once
MaxWriteFailures == 1   \* localStorage.setItem calls that throw, per page load

(***************************************************************************)
(* Text                                                                    *)
(***************************************************************************)
\* JSON white space; String.prototype.trim and the regular expression class \s
\* also take the byte-order mark, written here as the symbol "BOM"
JsonWhitespace == {" ", "\n"}
Whitespace == JsonWhitespace \cup {"BOM"}

RECURSIVE TrimStart(_)
TrimStart(s) ==
    IF s # <<>> /\ Head(s) \in Whitespace THEN TrimStart(Tail(s)) ELSE s

RECURSIVE TrimEnd(_)
TrimEnd(s) ==
    IF s # <<>> /\ s[Len(s)] \in Whitespace
    THEN TrimEnd(SubSeq(s, 1, Len(s) - 1))
    ELSE s

\* String.prototype.trim
Trim(s) == TrimEnd(TrimStart(s))

\* texts over an alphabet of length at most n
TextsUpTo(alphabet, n) == UNION {[1..k -> alphabet] : k \in 0..n}

IsPrefix(s, t) == Len(s) <= Len(t) /\ SubSeq(t, 1, Len(s)) = s

(***************************************************************************)
(* Locales and translations                                                *)
(***************************************************************************)
SUPPORTED_LOCALES == <<"es-UY", "en", "fr", "pt-BR", "de">>

SupportedCodes == {SUPPORTED_LOCALES[i] : i \in DOMAIN SUPPORTED_LOCALES}

DEFAULT_LOCALE == "es-UY"

\* translations[locale][key]: every locale of messages.ts defines every key
translations(loc, key) == <<loc \o ":" \o key>>

\* t(key) of a render whose locale is loc
t(loc, key) ==
    IF loc \in SupportedCodes THEN translations(loc, key)
    ELSE translations(DEFAULT_LOCALE, key)

QuestionKeys == <<"welcome.questions.wifi", "welcome.questions.schedule",
                  "welcome.questions.transport", "welcome.questions.restaurants">>

NumQuestions == 1   \* question buttons modelled, out of the four of the welcome view

Questions(loc) == {t(loc, QuestionKeys[i]) : i \in 1..NumQuestions}

(***************************************************************************)
(* JSON documents.  A value is a tagged record; an object maps its keys to *)
(* values; Undefined is what reading a missing property gives.             *)
(***************************************************************************)
JNull == [t |-> "null"]
Undefined == [t |-> "undefined"]
JStr(s) == [t |-> "str", s |-> s]
JNum(n) == [t |-> "num", n |-> n]
JArr(e) == [t |-> "arr", e |-> e]
JObj(f) == [t |-> "obj", f |-> f]

(***************************************************************************)
(* Messages and their persisted form                                       *)
(***************************************************************************)
\* interface Message
Message(id, content, role, timestamp) ==
    [id |-> id, content |-> content, role |-> role, timestamp |-> timestamp]

\* Number.prototype.toString of Date.now(), as a one-symbol text
DateToString(n) == <<ToString(n)>>

MessageToJson(m) ==
    JObj([k \in {"id", "content", "role", "timestamp"} |->
            CASE k = "id" -> JStr(m.id)
              [] k = "content" -> JStr(m.content)
              [] k = "role" -> JStr(<<m.role>>)
              [] OTHER -> JNum(m.timestamp)])

MessageFromJson(v) ==
    Message(v.f["id"].s, v.f["content"].s, v.f["role"].s[1], v.f["timestamp"].n)

\* JSON.stringify(valueToStore) of a Message[]
JSONstringify(log) == JArr([i \in DOMAIN log |-> MessageToJson(log[i])])

\* JSON.parse(item) of a stored Message[]
JSONparse(doc) == [i \in DOMAIN doc.e |-> MessageFromJson(doc.e[i])]

\* localStorage.getItem on a key that was never set
NoItem == [t |-> "none"]

\* initial value of useLocalStorage: item ? JSON.parse(item) : defaultValue
useLocalStorageInit(item, defaultValue) ==
    IF item # NoItem THEN JSONparse(item) ELSE defaultValue

(***************************************************************************)
(* Response resolver (parseN8nResponse, App.tsx:969-1067)                  *)
(***************************************************************************)
\* JavaScript truthiness of a JSON value
Truthy(v) ==
    CASE v.t = "undefined" -> FALSE
      [] v.t = "null" -> FALSE
      [] v.t = "str" -> v.s # <<>>
      [] v.t = "num" -> v.n # 0
      [] v.t = "bool" -> v.b
      [] OTHER -> TRUE

\* property read data[key]; primitives and arrays have none of these keys
Get(data, key) ==
    IF data.t = "obj" /\ key \in DOMAIN data.f THEN data.f[key] ELSE Undefined

\* typeof v === 'string'
IsString(v) == v.t = "str"

\* first non-empty text of a sequence of texts, '' when there is none
FirstNonEmpty(rs) ==
    IF \E i \in DOMAIN rs : rs[i] # <<>>
    THEN rs[CHOOSE i \in DOMAIN rs : rs[i] # <<>> /\ \A j \in 1..(i - 1) : rs[j] = <<>>]
    ELSE <<>>

\* mutant of stringKeys: the tests come in the opposite order
stringKeys_reversed == <<"content", "message", "text", "response", "output">>

\* the keys of the typeof ... === 'string' tests, in their order (App.tsx:983-987)
stringKeys == <<"output", "response", "text", "message", "content">>

\* mutant of keysToTry: the keys are tried in the opposite order
keysToTry_reversed == <<"content", "message", "text", "response", "output">>

keysToTry == <<"output", "response", "text", "message", "content">>

\* mutant of hasStringOutput: the array has no fast path
hasStringOutput_never(item) == FALSE

\* item && typeof item.output === 'string' (App.tsx:1005)
hasStringOutput(item) == Truthy(item) /\ IsString(Get(item, "output"))

RECURSIVE extractAssistantContent(_)
extractAssistantContent(data) ==
    LET items == Get(data, "items")
        \* item?.json || item
        jsonOr(item) == IF Truthy(Get(item, "json")) THEN Get(item, "json") ELSE item
        sItems == IF items.t = "arr"
                  THEN FirstNonEmpty([i \in DOMAIN items.e |->
                                        extractAssistantContent(jsonOr(items.e[i]))])
                  ELSE <<>>
        sJson == IF Truthy(Get(data, "json"))
                 THEN extractAssistantContent(Get(data, "json")) ELSE <<>>
        sData == IF Truthy(Get(data, "data"))
                 THEN extractAssistantContent(Get(data, "data")) ELSE <<>>
        hasString(i) == IsString(Get(data, stringKeys[i]))
        sArray == IF data.t = "arr"
                  THEN FirstNonEmpty([i \in DOMAIN data.e |->
                                        extractAssistantContent(data.e[i])])
                  ELSE <<>>
        sKeys == FirstNonEmpty([i \in DOMAIN keysToTry |->
                                  extractAssistantContent(Get(data, keysToTry[i]))])
    IN  IF ~Truthy(data) THEN <<>>
        ELSE IF IsString(data) THEN data.s
        ELSE IF \E i \in DOMAIN stringKeys : hasString(i)
             THEN Get(data, stringKeys[CHOOSE i \in DOMAIN stringKeys :
                                          /\ hasString(i)
                                          /\ \A j \in 1..(i - 1) : ~hasString(j)]).s
        ELSE IF sItems # <<>> THEN sItems
        ELSE IF sJson # <<>> THEN sJson
        ELSE IF sData # <<>> THEN sData
        ELSE IF data.t = "arr" /\ \E i \in DOMAIN data.e : hasStringOutput(data.e[i])
             THEN Get(data.e[CHOOSE i \in DOMAIN data.e :
                                 /\ hasStringOutput(data.e[i])
                                 /\ \A j \in 1..(i - 1) : ~hasStringOutput(data.e[j])],
                      "output").s
        ELSE IF sArray # <<>> THEN sArray
        ELSE sKeys

(***************************************************************************)
(* JSON text.  ToText writes a document in compact form; JSON.parse of a   *)
(* text is the document of JsonDocs whose compact form the text is, up to  *)
(* surrounding JSON white space, and a SyntaxError for every other text.   *)
(***************************************************************************)
RECURSIVE JoinTexts(_, _)
JoinTexts(ts, sep) ==
    IF ts = <<>> THEN <<>>
    ELSE IF Len(ts) = 1 THEN ts[1]
    ELSE ts[1] \o sep \o JoinTexts(Tail(ts), sep)

\* the order in which the keys of an object are written
KeyOrder == <<"type", "output", "response", "text", "message", "content",
              "items", "json", "data">>

RECURSIVE ToText(_)
ToText(v) ==
    CASE v.t = "str" -> <<"\"">> \o v.s \o <<"\"">>
      [] v.t = "num" -> <<ToString(v.n)>>
      [] v.t = "null" -> <<"null">>
      [] v.t = "arr" ->
            <<"[">> \o JoinTexts([i \in DOMAIN v.e |-> ToText(v.e[i])], <<",">>) \o <<"]">>
      [] v.t = "obj" ->
            LET present == SelectSeq(KeyOrder, LAMBDA k : k \in DOMAIN v.f)
            IN  <<"{">> \o JoinTexts([i \in DOMAIN present |->
                                        <<"\"", present[i], "\"", ":">>
                                            \o ToText(v.f[present[i]])], <<",">>)
                \o <<"}">>

SyntaxError == [t |-> "SyntaxError"]

RECURSIVE StripLeading(_, _)
StripLeading(s, set) ==
    IF s # <<>> /\ Head(s) \in set THEN StripLeading(Tail(s), set) ELSE s

RECURSIVE StripTrailing(_, _)
StripTrailing(s, set) ==
    IF s # <<>> /\ s[Len(s)] \in set
    THEN StripTrailing(SubSeq(s, 1, Len(s) - 1), set)
    ELSE s

\* String.prototype.split('\n')
RECURSIVE SplitLines(_)
SplitLines(s) ==
    IF \E i \in DOMAIN s : s[i] = "\n"
    THEN LET i == CHOOSE k \in DOMAIN s : s[k] = "\n" /\ \A j \in 1..(k - 1) : s[j] # "\n"
         IN  <<SubSeq(s, 1, i - 1)>> \o SplitLines(SubSeq(s, i + 1, Len(s)))
    ELSE <<s>>

\* the documents JSON.parse recognizes in this model
ContentTexts == {<<"a">>, <<"b">>}

\* an object with one key, with two keys
Obj1(k, v) == JObj(k :> v)
Obj2(k1, v1, k2, v2) == JObj((k1 :> v1) @@ (k2 :> v2))

\* the five content keys of the documents, by priority
CandidateKeys == <<"output", "response", "text", "message", "content">>

KeySet == {CandidateKeys[i] : i \in DOMAIN CandidateKeys}

\* values of a candidate key: strings, the empty one included, and values
\* that are no strings
PlainValues == {JStr(c) : c \in ContentTexts \cup {<<>>}} \cup {JNum(5), JNull}

\* { type: 'item', content: c }
ItemDocs == {Obj2("type", JStr(<<"item">>), "content", JStr(c)) :
                c \in ContentTexts \cup {<<>>}}

\* objects with one candidate key
FlatDocs == {Obj1(k, v) : k \in KeySet, v \in PlainValues}

\* objects with two candidate keys: the one of higher priority holds a string,
\* a value that is no string, or a nested object; the other one a string or a
\* nested object
PairDocs ==
    {Obj2(CandidateKeys[ij[1]], v, CandidateKeys[ij[2]], w) :
        ij \in {p \in (DOMAIN CandidateKeys) \X (DOMAIN CandidateKeys) : p[1] < p[2]},
        v \in {JStr(<<>>), JStr(<<"a">>), JNum(5),
                Obj1("text", JStr(<<"a">>)), Obj1("content", JStr(<<>>))},
        w \in {JStr(<<"b">>), Obj1("text", JStr(<<"b">>))}}

\* objects whose candidate key holds a nested object and nothing else
NestedDocs ==
    {Obj1(k, Obj1(k2, JStr(<<"a">>))) : k \in KeySet, k2 \in {"output", "content"}}

\* envelopes: { json: ... }, { data: ... }, { items: [...] }
EnvelopeDocs ==
    {Obj1("json", Obj1("output", JStr(<<"a">>))),
     Obj1("data", Obj1("text", JStr(<<"a">>))),
     Obj2("json", JObj(<<>>), "data", Obj1("content", JStr(<<"b">>))),
     Obj2("json", Obj1("text", JStr(<<"a">>)), "output", Obj1("text", JStr(<<"b">>))),
     Obj1("items", JArr(<<>>)),
     Obj1("items", JArr(<<Obj1("json", Obj1("output", JStr(<<"a">>))),
                          Obj1("output", JStr(<<"b">>))>>)),
     Obj2("items", JArr(<<Obj1("text", JStr(<<"a">>))>>), "output", JNum(5))}

\* elements of the arrays
ElementDocs ==
    {Obj1(k, v) : k \in {"output", "text"},
                  v \in {JStr(<<>>), JStr(<<"a">>), JStr(<<"b">>), JNum(5)}}
    \cup {JNull}

MaxArrayLen == 2    \* longest array of a response body

ArrayDocs == {JArr(e) : e \in UNION {[1..n -> ElementDocs] : n \in 0..MaxArrayLen}}

JsonDocs ==
    {JNull, JNum(5), JObj(<<>>)} \cup {JStr(c) : c \in ContentTexts}
    \cup ItemDocs \cup FlatDocs \cup PairDocs \cup NestedDocs \cup EnvelopeDocs
    \cup ArrayDocs

\* the compact text of each document
JsonDocText == [d \in JsonDocs |-> ToText(d)]

\* the document of each compact text
JsonTextDoc ==
    [text \in {JsonDocText[d] : d \in JsonDocs} |->
        CHOOSE d \in JsonDocs : JsonDocText[d] = text]

\* JSON.parse(text): a document, or SyntaxError when it throws
JSONparseText(text) ==
    LET body == StripTrailing(StripLeading(text, JsonWhitespace), JsonWhitespace)
    IN  IF body \in DOMAIN JsonTextDoc THEN JsonTextDoc[body] ELSE SyntaxError

\* /^[\s\uFEFF\u200B]*[\[{]/.test(rawText); "ZWSP" stands for U+200B
LooksLikeJson(rawText) ==
    LET rest == StripLeading(rawText, Whitespace \cup {"ZWSP"})
    IN  rest # <<>> /\ Head(rest) \in {"[", "{"}

\* mutant of unparseableLine: the line is appended whatever was accumulated
unparseableLine_appended(acc, line) == acc \o line

\* the catch block of the loop (App.tsx:1051-1053): the accumulator after a
\* line that JSON.parse rejected
unparseableLine(acc, line) == IF acc = <<>> THEN line ELSE acc

\* mutant of itemLine: the content of the line replaces the accumulator
itemLine_replaces(acc, content) == content

\* assistantContentInner += jsonLine.content (App.tsx:1046)
itemLine(acc, content) == acc \o content

\* the for loop over the lines of a newline-delimited body (App.tsx:1040-1054)
RECURSIVE NdjsonLines(_, _)
NdjsonLines(lines, acc) ==
    IF lines = <<>> THEN acc
    ELSE LET line == Trim(Head(lines))
             jsonLine == JSONparseText(line)
             s == extractAssistantContent(jsonLine)
             next ==
                IF line = <<>> THEN acc
                ELSE IF jsonLine = SyntaxError
                     THEN unparseableLine(acc, line)
                ELSE IF Get(jsonLine, "type") = JStr(<<"item">>)
                        /\ IsString(Get(jsonLine, "content"))
                     THEN itemLine(acc, Get(jsonLine, "content").s)
                ELSE IF s # <<>> THEN acc \o s
                ELSE acc
         IN  NdjsonLines(Tail(lines), next)

\* A Response: whether clone().text() and text() succeed, and the body text
Response(ok, cloneReads, reads, text) ==
    [ok |-> ok, cloneReads |-> cloneReads, reads |-> reads, text |-> text]

\* rawText of parseN8nResponse (App.tsx:974-976)
RawText(resp) ==
    LET first == IF resp.cloneReads THEN resp.text ELSE <<>>
    IN  IF first = <<>> THEN (IF resp.reads THEN resp.text ELSE <<>>) ELSE first

\* mutant of wholeJson: the error of JSON.parse escapes as the outcome
wholeJson_errorEscapes(rawText) ==
    IF rawText # <<>> /\ LooksLikeJson(rawText)
    THEN (IF JSONparseText(rawText) = SyntaxError
          THEN <<"SyntaxError">>
          ELSE extractAssistantContent(JSONparseText(rawText)))
    ELSE <<>>

\* the whole JSON parse (App.tsx:1026-1034): what it leaves in
\* assistantContentInner
wholeJson(rawText) ==
    IF rawText # <<>> /\ LooksLikeJson(rawText)
    THEN (IF JSONparseText(rawText) = SyntaxError
          THEN <<>>
          ELSE extractAssistantContent(JSONparseText(rawText)))
    ELSE <<>>

\* mutant of plainText: the text is trimmed
plainText_trimmed(assistantContent, rawText) ==
    IF assistantContent = <<>> /\ rawText # <<>> THEN Trim(rawText)
    ELSE assistantContent

\* mutant of plainText: there is no fallback to the raw text
plainText_never(assistantContent, rawText) == assistantContent

\* the fallback to plain text (App.tsx:1058-1061)
plainText(assistantContent, rawText) ==
    IF assistantContent = <<>> /\ rawText # <<>> THEN rawText ELSE assistantContent

parseN8nResponse(resp) ==
    LET rawText == RawText(resp)
        whole == wholeJson(rawText)
        lines == SplitLines(Trim(rawText))
        ndjson == IF whole = <<>> /\ rawText # <<>> /\ Len(lines) > 1
                  THEN NdjsonLines(lines, whole)
                  ELSE whole
    IN  plainText(ndjson, rawText)

(***************************************************************************)
(* Network                                                                 *)
(***************************************************************************)
primaryWebhookUrl == <<"https://n8n-n8n.ua4qkv.easypanel.host", "/webhook/",
                       "8cc93673-7b91-4992-aca5-834c8e66890a">>

\* url.replace('/webhook/', '/webhook-test/'): the first occurrence only
ReplaceWebhook(url) ==
    IF \E i \in DOMAIN url : url[i] = "/webhook/"
    THEN LET i == CHOOSE k \in DOMAIN url :
                     url[k] = "/webhook/" /\ \A j \in 1..(k - 1) : url[j] # "/webhook/"
         IN  [url EXCEPT ![i] = "/webhook-test/"]
    ELSE url

\* body texts the webhook answers with
BodyTexts ==
    {<<>>, ToText(JObj([k \in {"output"} |-> JStr(<<"a">>)]))}

\* what a fetch settles with: a rejection, or a Response
Rejected == [rejected |-> TRUE]

Outcomes ==
    {Rejected}
    \cup {Response(FALSE, TRUE, TRUE, <<>>)}
    \cup {Response(TRUE, TRUE, TRUE, b) : b \in BodyTexts}
    \cup {Response(TRUE, FALSE, TRUE, b) : b \in BodyTexts}
    \cup {Response(TRUE, FALSE, FALSE, b) : b \in BodyTexts \ {<<>>}}

IsRejected(o) == "rejected" \in DOMAIN o

\* the fetch resolved and response.ok holds
Is2xx(o) == IF IsRejected(o) THEN FALSE ELSE o.ok

(***************************************************************************)
(* Locale provider (src/i18n/LocaleProvider.tsx)                           *)
(*                                                                         *)
(* A locale code, a cookie value and a browser language are strings; Chars *)
(* gives the characters of each string that occurs, for split and          *)
(* startsWith.                                                             *)
(***************************************************************************)
\* null, as getCookieValue and localStorage.getItem return it
Null == "(null)"

Chars ==
    ("" :> <<>>)
    @@ ("es-UY" :> <<"e", "s", "-", "U", "Y">>)
    @@ ("en" :> <<"e", "n">>)
    @@ ("fr" :> <<"f", "r">>)
    @@ ("pt-BR" :> <<"p", "t", "-", "B", "R">>)
    @@ ("de" :> <<"d", "e">>)
    @@ ("es" :> <<"e", "s">>)
    @@ ("en-US" :> <<"e", "n", "-", "U", "S">>)
    @@ ("pt-PT" :> <<"p", "t", "-", "P", "T">>)
    @@ ("de-AT" :> <<"d", "e", "-", "A", "T">>)
    @@ ("it" :> <<"i", "t">>)
    @@ ("fil" :> <<"f", "i", "l">>)

\* a string is truthy unless it is null or empty
TruthyString(v) == v # Null /\ v # ""

LOCALE_COOKIE_KEY == "preferredLocale"

\* s.split('-')[0]
RECURSIVE FirstPart(_)
FirstPart(s) ==
    IF s = <<>> \/ Head(s) = "-" THEN <<>> ELSE <<Head(s)>> \o FirstPart(Tail(s))

\* SUPPORTED_LOCALES.some(l => l.code === code)
isSupported(code) == code \in SupportedCodes

\* SUPPORTED_LOCALES.find(...)?.code, hits being the positions of the codes
\* that satisfy the test: the first of them, or null
FirstCode(hits) ==
    IF hits = {} THEN Null
    ELSE SUPPORTED_LOCALES[CHOOSE i \in hits : \A j \in hits : i <= j]

\* navigator.language || navigator.languages?.[0] || DEFAULT_LOCALE
browserLang(nav) ==
    IF TruthyString(nav.language) THEN nav.language
    ELSE IF nav.languages # <<>> /\ TruthyString(nav.languages[1]) THEN nav.languages[1]
    ELSE DEFAULT_LOCALE

\* mutant of detectBrowserLocale: the browser language is taken as it is
detectBrowserLocale_asIs(nav) == browserLang(nav)

\* LocaleProvider.tsx:35-44, in a browser (navigator is defined)
detectBrowserLocale(nav) ==
    LET exactMatch == FirstCode({i \in DOMAIN SUPPORTED_LOCALES :
                                    SUPPORTED_LOCALES[i] = browserLang(nav)})
        langPart == FirstPart(Chars[browserLang(nav)])
        langMatch == FirstCode({i \in DOMAIN SUPPORTED_LOCALES :
                                   IsPrefix(langPart, Chars[SUPPORTED_LOCALES[i]])})
    IN  IF exactMatch # Null THEN exactMatch
        ELSE IF langMatch # Null THEN langMatch
        ELSE DEFAULT_LOCALE

\* LocaleProvider.tsx:21-27.  `; ${document.cookie}`.split(`; ${name}=`) has two
\* parts when exactly one cookie is called name; the value then runs up to the
\* next ';', and an empty value gives null
getCookieValue(jar, name) ==
    LET hits == {i \in DOMAIN jar : jar[i].name = name}
    IN  IF Cardinality(hits) = 1
        THEN LET value == jar[CHOOSE i \in hits : TRUE].value
             IN  IF TruthyString(value) THEN value ELSE Null
        ELSE Null

\* mutant of setCookie: the cookie is not written
setCookie_dropped(jar, name, value) == jar

\* LocaleProvider.tsx:29-33: document.cookie = `${name}=${value}; ...; path=/`
\* replaces the cookie of that name or adds it to the jar
setCookie(jar, name, value) ==
    IF \E i \in DOMAIN jar : jar[i].name = name
    THEN [i \in DOMAIN jar |->
             IF jar[i].name = name THEN [name |-> name, value |-> value] ELSE jar[i]]
    ELSE Append(jar, [name |-> name, value |-> value])

\* the useState initializer of locale (LocaleProvider.tsx:47-58), in a browser
initialLocale(jar, item, nav) ==
    LET cookieLocale == getCookieValue(jar, LOCALE_COOKIE_KEY)
        storageLocale == item
    IN  IF TruthyString(cookieLocale) /\ isSupported(cookieLocale) THEN cookieLocale
        ELSE IF TruthyString(storageLocale) /\ isSupported(storageLocale)
             THEN storageLocale
        ELSE detectBrowserLocale(nav)

\* mutant of finalLocale: localStorage is asked before the cookie
finalLocale_storageFirst(jar, item, nav) ==
    IF TruthyString(item) THEN item
    ELSE IF TruthyString(getCookieValue(jar, LOCALE_COOKIE_KEY))
         THEN getCookieValue(jar, LOCALE_COOKIE_KEY)
    ELSE detectBrowserLocale(nav)

\* cookieLocale || storageLocale || browserLocale (LocaleProvider.tsx:64-67)
finalLocale(jar, item, nav) ==
    IF TruthyString(getCookieValue(jar, LOCALE_COOKIE_KEY))
    THEN getCookieValue(jar, LOCALE_COOKIE_KEY)
    ELSE IF TruthyString(item) THEN item
    ELSE detectBrowserLocale(nav)

\* no code was selected since the page was loaded
NoSelection == [code |-> Null, stored |-> FALSE, arg |-> Null]

\* the stores of a first visit by a browser set to es-UY, once the provider's
\* effect has run
LocaleAtRest ==
    /\ cookie = <<>>
    /\ preferredLocale = Null
    /\ navigator = [language |-> "es-UY", languages |-> <<"es-UY">>]
    /\ isInitialized = TRUE
    /\ warned = Null
    /\ selected = NoSelection

\* no other tab is open
OneTab ==
    /\ tab = "A"
    /\ otherTab = <<>>

(***************************************************************************)
(* State                                                                   *)
(***************************************************************************)
InputTexts == TextsUpTo({" ", "h"}, MaxInputLen)

\* the variables of a render that a callback created in it keeps
Render == [chatMessages |-> chatMessages, isLoading |-> isLoading, locale |-> locale]

Op(name, early, write) == [op |-> name, early |-> early, write |-> write]

WriteResult(ok) == IF ok THEN "ok" ELSE "failed"

(***************************************************************************)
(* conv: history of the conversation since the page was loaded.            *)
(*   expected    the log as the submission flow is meant to build it: each *)
(*               submit's user message, then its assistant message; kept   *)
(*               while sequential holds, empty afterwards                  *)
(*   sequential  every submit so far was started by the user while the     *)
(*               widget was idle with no submit pending, no clear and no   *)
(*               failed write happened                                     *)
(*   writeFailures  the localStorage writes that failed                    *)
(*   cleared     clearChat ran, its write succeeded, and no submit         *)
(*               (question click, timer or accepted send) followed yet     *)
(*   lastWritten the in-memory log at the last successful write            *)
(*   attempted   the value passed to the last setStoredValue call          *)
(***************************************************************************)
ConvInit(log) ==
    [expected |-> log, sequential |-> TRUE, writeFailures |-> 0,
     cleared |-> FALSE, lastWritten |-> log, attempted |-> log]

ConvNorm(c) == IF c.sequential THEN c ELSE [c EXCEPT !.expected = <<>>]

Busy == isLoading \/ calls # {} \/ timers # <<>>

ConvWrite(c, newValue, ok) ==
    [c EXCEPT !.writeFailures = IF ok THEN @ ELSE @ + 1,
              !.sequential = @ /\ ok,
              !.lastWritten = IF ok THEN newValue ELSE @,
              !.attempted = newValue]

\* no Response was handed to a resolver run on its own
NoResponse == [t |-> "none"]

Init ==
    /\ storage = NoItem
    /\ chatMessages = useLocalStorageInit(storage, <<>>)
    /\ inputValue = <<>>
    /\ isLoading = FALSE
    /\ LocaleAtRest
    /\ OneTab
    /\ locale = initialLocale(cookie, preferredLocale, navigator)
    /\ timers = <<>>
    /\ calls = {}
    /\ now = 0
    /\ nextCall = 0
    /\ lastOp = Op("load", FALSE, "none")
    /\ conv = ConvInit(<<>>)
    /\ response = NoResponse
    /\ assistantContentInner = <<>>

(***************************************************************************)
(* Conversation store (useLocalStorage, App.tsx:824-854)                   *)
(***************************************************************************)
\* mutant of setStoredValue_value: setValue is reached only after setItem
\* returned
setStoredValue_value_afterSetItem(old, newValue, ok) == IF ok THEN newValue ELSE old

\* the value React holds after setStoredValue(newValue) when localStorage.setItem
\* succeeds (ok) or throws
setStoredValue_value(old, newValue, ok) == newValue

\* mutant of setStoredValue_item: the hook's own (previous) value is written
setStoredValue_item_staleValue(old, newValue, ok) ==
    IF ok THEN JSONstringify(chatMessages) ELSE old

\* mutant of setStoredValue_item: the last message of the new value is added to
\* what is persisted
setStoredValue_item_merged(old, newValue, ok) ==
    IF ~ok THEN old
    ELSE IF newValue = <<>> THEN JSONstringify(<<>>)
    ELSE JSONstringify(useLocalStorageInit(old, <<>>) \o <<newValue[Len(newValue)]>>)

\* the localStorage entry after setStoredValue(newValue)
setStoredValue_item(old, newValue, ok) ==
    IF ok THEN JSONstringify(newValue) ELSE old

\* whether the next localStorage.setItem may throw
Writes == {TRUE} \cup {ok \in {FALSE} : conv.writeFailures < MaxWriteFailures}

setStoredValue(newValue, ok) ==
    /\ chatMessages' = setStoredValue_value(chatMessages, newValue, ok)
    /\ storage' = setStoredValue_item(storage, newValue, ok)

(***************************************************************************)
(* Message submission flow                                                 *)
(***************************************************************************)
\* what a call knows of its primary response: nothing yet, or whether it was
\* 2xx and the text it resolved to
Pending == [settled |-> FALSE]
Settled(outcome) ==
    [settled |-> TRUE, is2xx |-> Is2xx(outcome),
     resolved |-> IF Is2xx(outcome) THEN parseN8nResponse(outcome) ELSE <<>>]

\* mutant of submitGuard: the isLoading test is missing
submitGuard_noLoadingTest(input, loading) == Trim(input) = <<>>

\* the guard of handleSendMessage (App.tsx:1116)
submitGuard(input, loading) == Trim(input) = <<>> \/ loading

\* the guard of sendMessageToAI (App.tsx:930), on the isLoading of the render
\* that created the function
sendGuard(messageContent, renderIsLoading) ==
    Trim(messageContent) = <<>> \/ renderIsLoading

\* the number of messages kept for context (App.tsx:936)
HistoryLimit == 10

\* Array.prototype.slice(-n): the trailing n elements, all of them when there
\* are fewer
SliceLast(log, n) ==
    SubSeq(log, IF Len(log) > n THEN Len(log) - n + 1 ELSE 1, Len(log))

\* mutant of conversationHistory: the leading messages are kept
conversationHistory_leading(currentMessages) ==
    LET kept == SubSeq(currentMessages, 1,
                       IF Len(currentMessages) > HistoryLimit
                       THEN HistoryLimit ELSE Len(currentMessages))
    IN  [i \in DOMAIN kept |->
            [role |-> kept[i].role, content |-> kept[i].content,
             timestamp |-> kept[i].timestamp]]

\* conversationHistory of the payload (App.tsx:936, 945-949)
conversationHistory(currentMessages) ==
    LET kept == SliceLast(currentMessages, HistoryLimit)
    IN  [i \in DOMAIN kept |->
            [role |-> kept[i].role, content |-> kept[i].content,
             timestamp |-> kept[i].timestamp]]

\* the payload posted to the webhook (App.tsx:939-950)
Payload(messageContent, currentMessages, loc) ==
    [message |-> Trim(messageContent),
     role |-> "user",
     timestamp |-> now,
     sessionId |-> "hotel-chat-session",
     locale |-> loc,
     conversationHistory |-> conversationHistory(currentMessages)]

\* sendMessageToAI up to its first await (App.tsx:929-962): the early return,
\* or setIsLoading(true) and the fetch of the primary webhook
sendMessageToAI(messageContent, currentMessages, render) ==
    IF sendGuard(messageContent, render.isLoading)
    THEN UNCHANGED <<isLoading, calls, nextCall>>
    ELSE /\ isLoading' = TRUE
         /\ nextCall' = nextCall + 1
         /\ calls' = calls \cup
                {[id |-> nextCall + 1,
                  phase |-> "primary",
                  url |-> primaryWebhookUrl,
                  fetches |-> 1,
                  primary |-> Pending,
                  messageContent |-> messageContent,
                  currentMessages |-> currentMessages,
                  payload |-> Payload(messageContent, currentMessages,
                                      render.locale),
                  render |-> render]}

\* mutant of WithUserMessage: the new message is put in front of the log
WithUserMessage_inFront(messages, userMessage) == <<userMessage>> \o messages

\* [...(chatMessages || []), userMessage] (App.tsx:1129, 1319)
WithUserMessage(messages, userMessage) == Append(messages, userMessage)

\* handleSendMessage (App.tsx:1115-1134): the send button and the Enter key
handleSendMessage(ok) ==
    LET userMessage == Message(DateToString(now), Trim(inputValue), "user", now)
        messageToSend == Trim(inputValue)
        updatedMessages == WithUserMessage(chatMessages, userMessage)
    IN  IF submitGuard(inputValue, isLoading)
        THEN /\ lastOp' = Op("handleSendMessage", TRUE, "none")
             /\ UNCHANGED <<chatMessages, storage, inputValue, isLoading, locale, asideVars,
                            timers, calls, now, nextCall, conv>>
        ELSE /\ nextCall < MaxCalls
             /\ inputValue' = <<>>
             /\ setStoredValue(updatedMessages, ok)
             /\ sendMessageToAI(messageToSend, updatedMessages, Render)
             /\ lastOp' = Op("handleSendMessage", FALSE, WriteResult(ok))
             /\ conv' = ConvNorm([ConvWrite(conv, updatedMessages, ok) EXCEPT
                                     !.expected = Append(@, userMessage),
                                     !.sequential = @ /\ ~Busy,
                                     !.cleared = FALSE])
             /\ UNCHANGED <<locale, asideVars, timers, now>>

\* onChange of the input field, which is disabled while isLoading (App.tsx:1557-1561)
onChange(text) ==
    /\ ~isLoading
    /\ inputValue' = text
    /\ lastOp' = Op("onChange", FALSE, "none")
    /\ UNCHANGED <<chatMessages, storage, isLoading, locale, asideVars, timers, calls, now,
                   nextCall, conv>>

\* onClick of a predefined question, rendered while the log is empty
\* (App.tsx:1229, 1309-1326): fills the input and starts the 300 ms timer
questionClick(question) ==
    /\ Len(chatMessages) = 0
    /\ Len(timers) < MaxTimers
    /\ inputValue' = question
    /\ timers' = Append(timers, [question |-> question, render |-> Render])
    /\ lastOp' = Op("questionClick", FALSE, "none")
    /\ conv' = ConvNorm([conv EXCEPT !.sequential = @ /\ ~Busy, !.cleared = FALSE])
    /\ UNCHANGED <<chatMessages, storage, isLoading, locale, asideVars, calls, now, nextCall>>

\* the setTimeout callback of a predefined question (App.tsx:1312-1325); timers
\* of equal delay fire in the order they were set
questionTimer(ok) ==
    /\ timers # <<>>
    /\ nextCall < MaxCalls
    /\ LET timer == Head(timers)
           userMessage == Message(DateToString(now), timer.question, "user", now)
           updatedMessages == WithUserMessage(timer.render.chatMessages, userMessage)
       IN  /\ timers' = Tail(timers)
           /\ setStoredValue(updatedMessages, ok)
           /\ inputValue' = <<>>
           /\ sendMessageToAI(timer.question, updatedMessages, timer.render)
           /\ lastOp' = Op("questionTimer",
                           sendGuard(timer.question, timer.render.isLoading),
                           WriteResult(ok))
           /\ conv' = ConvNorm([ConvWrite(conv, updatedMessages, ok) EXCEPT
                                   !.expected = Append(@, userMessage),
                                   !.cleared = FALSE])
    /\ UNCHANGED <<locale, asideVars, now>>

\* assistantMessage / errorMessage (App.tsx:1094-1099, 1103-1108)
AssistantMessage(content) ==
    Message(DateToString(now + 1), content, "assistant", now + 1)

\* mutant of WithReply: the reply is appended to the log of the render that
\* created sendMessageToAI instead of the freshly appended log
WithReply_staleLog(call, message) == Append(call.render.chatMessages, message)

\* [...currentMessages, assistantMessage] (App.tsx:1101, 1109)
WithReply(call, message) == Append(call.currentMessages, message)

\* mutant of loadingAfter: setIsLoading(false) only at the end of the try block
loadingAfter_noFinally(name) == name = "catch"

\* isLoading after the try statement of sendMessageToAI left through its try
\* block ("resolved") or its catch block ("catch"): finally { setIsLoading(false) }
loadingAfter(name) == FALSE

\* mutant of errorContent: the catch block uses the other canned text
errorContent_unavailable(loc) == t(loc, "error.unavailable")

\* t('error.processing') of the catch block (App.tsx:1105)
errorContent(loc) == t(loc, "error.processing")

\* the end of sendMessageToAI: setChatMessages and, in finally, setIsLoading(false)
finish(call, message, ok, name) ==
    /\ setStoredValue(WithReply(call, message), ok)
    /\ isLoading' = loadingAfter(name)
    /\ calls' = calls \ {call}
    /\ lastOp' = Op(name, FALSE, WriteResult(ok))
    /\ conv' = ConvNorm([ConvWrite(conv, WithReply(call, message), ok) EXCEPT
                            !.expected = Append(@, message)])
    /\ UNCHANGED <<inputValue, locale, asideVars, timers, now, nextCall>>

\* the primary fetch rejects or answers non-2xx: the catch block (App.tsx:964-966, 1102-1109)
primaryFails(call, outcome, ok) ==
    /\ call.phase = "primary"
    /\ ~Is2xx(outcome)
    /\ finish(call, AssistantMessage(errorContent(call.render.locale)), ok, "catch")

\* the primary fetch answers 2xx with a body that resolves to a non-empty text
primaryResolves(call, outcome, ok) ==
    /\ call.phase = "primary"
    /\ Is2xx(outcome)
    /\ parseN8nResponse(outcome) # <<>>
    /\ finish(call, AssistantMessage(parseN8nResponse(outcome)), ok, "resolved")

\* the primary fetch answers 2xx and resolves to '': fetch of the test URL
\* (App.tsx:1073-1084)
primaryEmpty(call, outcome) ==
    /\ call.phase = "primary"
    /\ Is2xx(outcome)
    /\ parseN8nResponse(outcome) = <<>>
    /\ calls' = (calls \ {call}) \cup
                    {[call EXCEPT !.phase = "retry",
                                  !.url = ReplaceWebhook(primaryWebhookUrl),
                                  !.fetches = @ + 1,
                                  !.primary = Settled(outcome)]}
    /\ lastOp' = Op("retry", FALSE, "none")
    /\ UNCHANGED <<chatMessages, storage, inputValue, isLoading, locale, asideVars, timers,
                   now, nextCall, conv>>

\* assistantContent after the retry (App.tsx:1085-1090)
retryContent(outcome) ==
    IF Is2xx(outcome) THEN parseN8nResponse(outcome) ELSE <<>>

\* mutant of contentOrUnavailable: the fallback is the processing-error text
contentOrUnavailable_processing(content, loc) ==
    IF content # <<>> THEN content ELSE t(loc, "error.processing")

\* assistantContent || t('error.unavailable')
contentOrUnavailable(content, loc) ==
    IF content # <<>> THEN content ELSE t(loc, "error.unavailable")

\* the fetch of the test URL settles
retrySettles(call, outcome, ok) ==
    /\ call.phase = "retry"
    /\ finish(call,
              AssistantMessage(contentOrUnavailable(retryContent(outcome),
                                                    call.render.locale)),
              ok, "resolved")

\* clearChat (App.tsx:1143-1146), reached from the trash button shown while the
\* log is not empty; the confirmation modal is not modelled
clearChat(ok) ==
    /\ chatMessages # <<>>
    /\ setStoredValue(<<>>, ok)
    /\ lastOp' = Op("clearChat", FALSE, WriteResult(ok))
    /\ conv' = ConvNorm([ConvWrite(conv, <<>>, ok) EXCEPT
                            !.sequential = FALSE, !.cleared = ok])
    /\ UNCHANGED <<inputValue, isLoading, locale, asideVars, timers, calls, now, nextCall>>

\* the page is loaded again: the state of a new App, rehydrated from localStorage;
\* the callbacks of the old page are gone
Reload ==
    /\ chatMessages' = useLocalStorageInit(storage, <<>>)
    /\ inputValue' = <<>>
    /\ isLoading' = FALSE
    /\ timers' = <<>>
    /\ calls' = {}
    /\ lastOp' = Op("load", FALSE, "none")
    /\ conv' = [ConvInit(useLocalStorageInit(storage, <<>>)) EXCEPT
                   !.cleared = conv.cleared]
    /\ UNCHANGED <<storage, locale, asideVars, now, nextCall>>

\* a millisecond passes
Tick ==
    /\ now < MaxClock
    /\ now' = now + 1
    /\ lastOp' = Op("tick", FALSE, "none")
    /\ UNCHANGED <<chatMessages, storage, inputValue, isLoading, locale, asideVars, timers,
                   calls, nextCall, conv>>

Next ==
    \/ \E ok \in Writes : handleSendMessage(ok)
    \/ \E text \in InputTexts : onChange(text)
    \/ \E question \in Questions(locale) : questionClick(question)
    \/ \E ok \in Writes : questionTimer(ok)
    \/ \E call \in calls, outcome \in Outcomes, ok \in Writes :
            primaryFails(call, outcome, ok)
    \/ \E call \in calls, outcome \in Outcomes, ok \in Writes :
            primaryResolves(call, outcome, ok)
    \/ \E call \in calls, outcome \in Outcomes : primaryEmpty(call, outcome)
    \/ \E call \in calls, outcome \in Outcomes, ok \in Writes :
            retrySettles(call, outcome, ok)
    \/ \E ok \in Writes : clearChat(ok)
    \/ Reload
    \/ Tick

Spec == Init /\ [][Next]_vars

(***************************************************************************)
(* The page is loaded over a log that earlier visits left in localStorage. *)
(***************************************************************************)
MaxStoredLen == 11  \* longest log found in localStorage when the page loads

\* the i-th message of a stored log: user and assistant messages alternate,
\* with distinct timestamps that lie before the page load
StoredMessage(i) ==
    Message(DateToString(i - MaxStoredLen - 1), <<"h">>,
            IF i % 2 = 1 THEN "user" ELSE "assistant", i - MaxStoredLen - 1)

StoredLog(n) == [i \in 1..n |-> StoredMessage(i)]

\* the lengths of the stored logs: below, at and above the history limit once
\* a message is appended
StoredLens == {n \in 0..MaxStoredLen : n >= HistoryLimit - 2}

HistoryInit ==
    /\ \E n \in StoredLens : storage = JSONstringify(StoredLog(n))
    /\ chatMessages = useLocalStorageInit(storage, <<>>)
    /\ inputValue = <<>>
    /\ isLoading = FALSE
    /\ LocaleAtRest
    /\ OneTab
    /\ locale = initialLocale(cookie, preferredLocale, navigator)
    /\ timers = <<>>
    /\ calls = {}
    /\ now = 0
    /\ nextCall = 0
    /\ lastOp = Op("load", FALSE, "none")
    /\ conv = ConvInit(chatMessages)
    /\ response = NoResponse
    /\ assistantContentInner = <<>>

HistorySpec == HistoryInit /\ [][Next]_vars

(***************************************************************************)
(* The resolver run on its own, over the bodies a webhook may answer with. *)
(***************************************************************************)
MaxLines == 3   \* most lines of a newline-delimited body

\* the lines of the newline-delimited bodies: item lines, other JSON lines,
\* lines that are no JSON, and the blank line
LineTexts ==
    {JsonDocText[d] : d \in ItemDocs \cup {Obj1("output", JStr(<<"a">>)), JNull}}
    \cup {<<"x">>, <<" ", "y">>, <<>>}

MultiLineBodies ==
    {JoinTexts(ls, <<"\n">>) : ls \in UNION {[1..n -> LineTexts] : n \in 2..MaxLines}}

\* bodies of one line: nothing, a JSON document, plain text, broken JSON,
\* JSON behind a byte-order mark or inside white space, white space
SingleLineBodies ==
    {<<>>}
    \cup {JsonDocText[d] : d \in JsonDocs}
    \cup {<<"h", "i">>, <<" ", "x", " ">>, <<"{", "x">>, <<"[">>, <<" ">>,
          <<"ZWSP", "{", "x">>,
          <<"BOM">> \o JsonDocText[Obj1("output", JStr(<<"a">>))],
          <<" ">> \o JsonDocText[Obj1("output", JStr(<<"a">>))] \o <<"\n">>}

ResolverBodies == SingleLineBodies \cup MultiLineBodies

\* the responses: bodies that can be read, bodies that only text() reads, and
\* one that cannot be read at all
ResolverResponses ==
    {Response(TRUE, TRUE, TRUE, b) : b \in ResolverBodies}
    \cup {Response(TRUE, FALSE, TRUE, b) : b \in {<<>>, <<"h", "i">>}}
    \cup {Response(TRUE, FALSE, FALSE, <<"h", "i">>)}

ResolverInit ==
    /\ response \in ResolverResponses
    /\ assistantContentInner = <<>>
    /\ storage = NoItem
    /\ chatMessages = <<>>
    /\ inputValue = <<>>
    /\ isLoading = FALSE
    /\ LocaleAtRest
    /\ OneTab
    /\ locale = initialLocale(cookie, preferredLocale, navigator)
    /\ timers = <<>>
    /\ calls = {}
    /\ now = 0
    /\ nextCall = 0
    /\ lastOp = Op("load", FALSE, "none")
    /\ conv = ConvInit(<<>>)

\* await parseN8nResponse(response)
Resolve ==
    /\ lastOp.op = "load"
    /\ assistantContentInner' = parseN8nResponse(response)
    /\ lastOp' = Op("parseN8nResponse", FALSE, "none")
    /\ UNCHANGED <<chatMessages, storage, inputValue, isLoading, locale, timers,
                   calls, now, nextCall, conv, response, localeVars, tabVars>>

ResolverNext == Resolve

ResolverSpec == ResolverInit /\ [][ResolverNext]_vars

\* the resolver has run on response
Resolved == lastOp.op = "parseN8nResponse"

\* the text the resolver could read
Body == IF response.cloneReads \/ response.reads THEN response.text ELSE <<>>

(***************************************************************************)
(* The locale provider on its own: a page is loaded over every content of  *)
(* the cookie jar, of the 'preferredLocale' entry and of the browser's     *)
(* language, the provider's effect runs, codes are selected, the page is   *)
(* loaded again.                                                           *)
(***************************************************************************)
\* what the cookie and the localStorage entry may hold when the page is loaded
StoredLocales == SupportedCodes \cup {"it", ""}

\* another cookie of the origin
OtherCookie == [name |-> "theme", value |-> "dark"]

LocaleCookie(v) == [name |-> LOCALE_COOKIE_KEY, value |-> v]

CookieJars ==
    {<<>>, <<OtherCookie>>}
    \cup {<<LocaleCookie(v)>> : v \in StoredLocales}
    \cup {<<OtherCookie, LocaleCookie(v)>> : v \in StoredLocales}
    \cup {<<LocaleCookie(v), OtherCookie>> : v \in StoredLocales}

\* language tags a browser reports
BrowserLanguages == {"es-UY", "en", "pt-BR", "es", "en-US", "pt-PT", "de-AT", "it", "fil"}

Navigators ==
    {[language |-> l, languages |-> <<l>>] : l \in BrowserLanguages}
    \cup {[language |-> "", languages |-> ls] : ls \in {<<>>, <<"de-AT">>, <<"it">>}}

\* the codes passed to setLocale
LocaleArgs == SupportedCodes \cup {"it", "en-US", ""}

LocaleInit ==
    /\ cookie \in CookieJars
    /\ preferredLocale \in StoredLocales \cup {Null}
    /\ navigator \in Navigators
    /\ locale = initialLocale(cookie, preferredLocale, navigator)
    /\ isInitialized = FALSE
    /\ warned = Null
    /\ selected = NoSelection
    /\ OneTab
    /\ storage = NoItem
    /\ chatMessages = <<>>
    /\ inputValue = <<>>
    /\ isLoading = FALSE
    /\ timers = <<>>
    /\ calls = {}
    /\ now = 0
    /\ nextCall = 0
    /\ lastOp = Op("load", FALSE, "none")
    /\ conv = ConvInit(<<>>)
    /\ response = NoResponse
    /\ assistantContentInner = <<>>

\* what the locale provider leaves alone
chatVars == <<chatMessages, storage, inputValue, isLoading, timers, calls, now,
              nextCall, conv, resolverVars, tabVars>>

\* the provider's effect (LocaleProvider.tsx:62-72)
initEffect ==
    /\ ~isInitialized
    /\ locale' = IF /\ isSupported(finalLocale(cookie, preferredLocale, navigator))
                    /\ finalLocale(cookie, preferredLocale, navigator) # locale
                 THEN finalLocale(cookie, preferredLocale, navigator)
                 ELSE locale
    /\ isInitialized' = TRUE
    /\ lastOp' = Op("initEffect", FALSE, "none")
    /\ UNCHANGED <<cookie, preferredLocale, navigator, warned, selected, chatVars>>

\* mutant of setLocaleGuard: every code is let through
setLocaleGuard_open(newLocale) == TRUE

\* LocaleProvider.tsx:75
setLocaleGuard(newLocale) == isSupported(newLocale)

\* setLocale(newLocale) (LocaleProvider.tsx:74-83); localStorage.setItem returns
\* (ok) or throws, and nothing in setLocale catches what it throws
setLocale(newLocale, ok) ==
    /\ IF ~setLocaleGuard(newLocale)
       THEN /\ warned' = newLocale
            /\ lastOp' = Op("setLocale", TRUE, "none")
            /\ selected' = [selected EXCEPT !.arg = newLocale]
            /\ UNCHANGED <<cookie, preferredLocale, locale>>
       ELSE /\ cookie' = setCookie(cookie, LOCALE_COOKIE_KEY, newLocale)
            /\ preferredLocale' = IF ok THEN newLocale ELSE preferredLocale
            /\ locale' = IF ok THEN newLocale ELSE locale
            /\ lastOp' = Op("setLocale", FALSE, IF ok THEN "ok" ELSE "threw")
            /\ selected' = [code |-> newLocale, stored |-> ok, arg |-> newLocale]
            /\ UNCHANGED warned
    /\ UNCHANGED <<navigator, isInitialized, chatVars>>

\* the page is loaded again: a new provider over the same stores
localeReload ==
    /\ locale' = initialLocale(cookie, preferredLocale, navigator)
    /\ isInitialized' = FALSE
    /\ warned' = Null
    /\ lastOp' = Op("load", FALSE, "none")
    /\ UNCHANGED <<cookie, preferredLocale, navigator, selected, chatVars>>

LocaleNext ==
    \/ initEffect
    \/ \E newLocale \in LocaleArgs, ok \in BOOLEAN : setLocale(newLocale, ok)
    \/ localeReload

LocaleSpec == LocaleInit /\ [][LocaleNext]_vars

(***************************************************************************)
(* Two tabs of the same origin, each with its own useLocalStorage hook     *)
(* over the one 'chat-messages' entry (App.tsx:824-854, 883).  The         *)
(* variables chatMessages and lastOp describe the tab the guest is in;     *)
(* otherTab is the log the other tab holds in memory.  Nothing in the      *)
(* hook listens to the storage event of the other tab's writes.            *)
(***************************************************************************)
MaxTabLog == 2      \* messages a tab appends while its log is shorter than this

OtherTabName(name) == IF name = "A" THEN "B" ELSE "A"

\* a message typed in tab name: the guest types "a" in tab A and "b" in tab B
TabMessage(name) ==
    Message(DateToString(now), IF name = "A" THEN <<"a">> ELSE <<"b">>, "user", now)

TabsInit ==
    /\ storage = NoItem
    /\ chatMessages = useLocalStorageInit(storage, <<>>)
    /\ otherTab = useLocalStorageInit(storage, <<>>)
    /\ tab = "A"
    /\ inputValue = <<>>
    /\ isLoading = FALSE
    /\ LocaleAtRest
    /\ locale = initialLocale(cookie, preferredLocale, navigator)
    /\ timers = <<>>
    /\ calls = {}
    /\ now = 0
    /\ nextCall = 0
    /\ lastOp = Op("load", FALSE, "none")
    /\ conv = ConvInit(<<>>)
    /\ response = NoResponse
    /\ assistantContentInner = <<>>

\* what a step of the hook leaves alone
hookAside == <<inputValue, isLoading, locale, timers, calls, now, nextCall, conv,
               resolverVars, localeVars>>

\* setChatMessages([...chatMessages, message]) in the guest's tab
tabAppend(ok) ==
    /\ Len(chatMessages) < MaxTabLog
    /\ setStoredValue(WithUserMessage(chatMessages, TabMessage(tab)), ok)
    /\ lastOp' = Op("setChatMessages", FALSE, WriteResult(ok))
    /\ UNCHANGED <<tabVars, hookAside>>

\* setChatMessages([]) in the guest's tab (App.tsx:1144)
tabClear(ok) ==
    /\ setStoredValue(<<>>, ok)
    /\ lastOp' = Op("clearChat", FALSE, WriteResult(ok))
    /\ UNCHANGED <<tabVars, hookAside>>

\* the guest's tab is loaded again (App.tsx:825-832)
tabLoad ==
    /\ chatMessages' = useLocalStorageInit(storage, <<>>)
    /\ lastOp' = Op("load", FALSE, "none")
    /\ UNCHANGED <<storage, tabVars, hookAside>>

\* the guest turns to the other tab
switchTab ==
    /\ tab' = OtherTabName(tab)
    /\ chatMessages' = otherTab
    /\ otherTab' = chatMessages
    /\ lastOp' = Op("switchTab", FALSE, "none")
    /\ UNCHANGED <<storage, hookAside>>

TabsNext ==
    \/ \E ok \in BOOLEAN : tabAppend(ok)
    \/ \E ok \in BOOLEAN : tabClear(ok)
    \/ tabLoad
    \/ switchTab

TabsSpec == TabsInit /\ [][TabsNext]_vars

(***************************************************************************)
(* The App of src/unnamed/part_001, which passes updater functions to the  *)
(* setter of useLocalStorage: setMessages(currentMessages =>               *)
(* [...currentMessages, message]).  The hook is the one of App.tsx:824-854 *)
(* (part_001:20-49): setStoredValue calls the updater with the value of    *)
(* the render that created the setter.                                     *)
(***************************************************************************)
\* newValue instanceof Function ? newValue(value) : newValue, for the updater
\* that appends message; value is the hook's value in the setter's render
valueToStore(value, message) == Append(value, message)

\* what the request of part_001 ends with: content of the stream, no content,
\* or a failure (part_001:131-196)
Part001Outcomes == {"content", "empty", "error"}

part001_content(outcome) ==
    IF outcome = "content" THEN <<"a">>
    ELSE IF outcome = "empty"
         THEN <<"Lo siento, no he podido procesar su consulta en este momento.">>
    ELSE <<"Disculpe, he encontrado un error al procesar su consulta.">>

\* handleSendMessage of part_001 (201-218) with sendMessageToAI up to its
\* fetch (100-130)
part001_handleSendMessage(ok) ==
    /\ UNCHANGED <<locale, asideVars, timers, now, conv>>
    /\ IF Trim(inputValue) = <<>> \/ isLoading
       THEN /\ lastOp' = Op("part001_handleSendMessage", TRUE, "none")
            /\ UNCHANGED <<chatMessages, storage, inputValue, isLoading, calls,
                           nextCall>>
       ELSE /\ nextCall < MaxCalls
            /\ setStoredValue(
                   valueToStore(chatMessages,
                                Message(DateToString(now), Trim(inputValue), "user", now)),
                   ok)
            /\ inputValue' = <<>>
            /\ isLoading' = TRUE
            /\ nextCall' = nextCall + 1
            /\ calls' = calls \cup
                   {[id |-> nextCall + 1, messageContent |-> Trim(inputValue),
                     render |-> Render]}
            /\ lastOp' = Op("part001_handleSendMessage", FALSE, WriteResult(ok))

\* the rest of sendMessageToAI of part_001 (131-199): the assistant or error
\* message is appended through the setter of the call's render
part001_reply(call, outcome, ok) ==
    /\ setStoredValue(valueToStore(call.render.chatMessages,
                                   AssistantMessage(part001_content(outcome))), ok)
    /\ isLoading' = FALSE
    /\ calls' = calls \ {call}
    /\ lastOp' = Op("part001_reply", FALSE, WriteResult(ok))
    /\ UNCHANGED <<inputValue, locale, asideVars, timers, now, nextCall, conv>>

Part001Next ==
    \/ \E ok \in BOOLEAN : part001_handleSendMessage(ok)
    \/ \E call \in calls, outcome \in Part001Outcomes, ok \in BOOLEAN :
            part001_reply(call, outcome, ok)
    \/ \E text \in InputTexts : onChange(text)
    \/ Tick

UpdaterSpec == Init /\ [][Part001Next]_vars

(***************************************************************************)
(* Claims                                                                  *)
(***************************************************************************)
\* the webhook requests of this client that are in flight: each pending
\* sendMessageToAI invocation awaits exactly one fetch, primary or retry
InFlight == Cardinality(calls)

\* C1: in every reachable state at most one outbound webhook request (primary
\* or retry) of the client is in flight, whichever way the sends were triggered
\* (send button, Enter key, question button with its 300 ms timer).
C1_AtMostOneInFlight == InFlight <= 1

\* the log a reload would rehydrate
Persisted == useLocalStorageInit(storage, <<>>)

Last(log) == log[Len(log)]

\* C2: after clearChat (in Idle or while a request is in flight) the in-memory
\* log and the persisted log are empty and stay empty until the next user
\* submit, so a reload before that submit rehydrates an empty log.
C2_ClearedStaysEmpty ==
    conv.cleared => chatMessages = <<>> /\ Persisted = <<>>

\* C3: between two clears the log is append-only: every step other than
\* clearChat (and a page load) leaves the previous in-memory log as a prefix
\* of the new one.
C3_AppendOnly ==
    [][lastOp'.op \notin {"clearChat", "load"} => IsPrefix(chatMessages, chatMessages')]_vars

\* C4: when every submit is started by the user after the previous one has
\* returned to Idle (no clear, no failed write), the final log is the initial
\* log followed, per submit in order, by its user message and then exactly one
\* assistant message.
C4_SequentialSubmits ==
    (conv.sequential /\ ~Busy) => chatMessages = conv.expected

\* two sequential submits, the second one through a question-free send, have
\* completed
C4_Witness ==
    /\ conv.sequential /\ ~Busy
    /\ Len(chatMessages) = 4
    /\ chatMessages[1].role = "user" /\ chatMessages[2].role = "assistant"
    /\ chatMessages[3].role = "user" /\ chatMessages[4].role = "assistant"

\* C5: a submit through the send control or the Enter key while isLoading or
\* with an empty or whitespace-only input changes nothing: log, persisted log,
\* input, loading flag and in-flight requests stay as they are.
C5_RejectedSubmitIsNoOp ==
    [][(lastOp'.op = "handleSendMessage" /\ (isLoading \/ Trim(inputValue) = <<>>))
          => UNCHANGED <<chatMessages, storage, inputValue, isLoading, calls>>]_vars

\* a submit was rejected while Sending although the input held text
C5_Witness ==
    /\ lastOp.op = "handleSendMessage" /\ lastOp.early
    /\ isLoading /\ Trim(inputValue) # <<>>

\* C6: after any appends, replaces and clears of which no storage write
\* failed, the persisted log equals the in-memory log; and a reload always
\* rehydrates the log that was in memory at the last successful write.
C6_PersistedEqualsMemory ==
    /\ conv.writeFailures = 0 => Persisted = chatMessages
    /\ Persisted = conv.lastWritten

\* a reply was appended and persisted, every write of the page having succeeded
C6_Witness ==
    /\ conv.writeFailures = 0 /\ lastOp.write = "ok"
    /\ Len(chatMessages) >= 2 /\ storage # NoItem

\* C7 as stated: when the localStorage write of a log mutation fails, the
\* in-memory log keeps its pre-write value.
C7_MemoryKeptOnFailedWrite ==
    [][lastOp'.write = "failed" => chatMessages' = chatMessages]_vars

\* C7 amended: when the localStorage write of a log mutation fails, the
\* failure is caught, the persisted log keeps its pre-write value, and the
\* in-memory log takes the new value.
C7_PersistedKeptOnFailedWrite ==
    [][lastOp'.write = "failed" =>
          /\ storage' = storage
          /\ chatMessages' = conv'.attempted]_vars

\* a write failed: memory holds a log that storage does not
C7_Witness ==
    lastOp.write = "failed" /\ chatMessages # <<>> /\ Persisted # chatMessages

\* some issued fetch settles
Settle ==
    \E call \in calls, outcome \in Outcomes, ok \in Writes :
        \/ primaryFails(call, outcome, ok)
        \/ primaryResolves(call, outcome, ok)
        \/ primaryEmpty(call, outcome)
        \/ retrySettles(call, outcome, ok)

\* every issued network call eventually settles
LiveSpec == Init /\ [][Next]_vars /\ WF_vars(Settle)

\* C8: if every issued network call eventually settles, Sending always leads
\* back to Idle, and isLoading falls only at the end of sendMessageToAI, through
\* its try block (Resolved) or its catch block (Failed), or by a page load.
C8_SendingReturnsToIdle ==
    /\ isLoading ~> ~isLoading
    /\ [][(isLoading /\ ~isLoading') => lastOp'.op \in {"resolved", "catch", "load"}]_vars

\* a submit went through the catch block and the widget is idle again
C8_Witness ==
    /\ lastOp.op = "catch" /\ ~isLoading /\ calls = {}
    /\ chatMessages # <<>> /\ Last(chatMessages).role = "assistant"

\* the primary response is 2xx but its body cannot be read
BodyUnreadable(outcome) ==
    IF IsRejected(outcome) THEN FALSE
    ELSE outcome.ok /\ ~outcome.cloneReads /\ ~outcome.reads

\* the step is the continuation of call after its fetch settled with outcome;
\* every such step takes the record of call, as it was, out of calls
SettleStep(call, outcome) ==
    \E ok \in Writes :
        \/ primaryFails(call, outcome, ok)
        \/ primaryResolves(call, outcome, ok)
        \/ primaryEmpty(call, outcome)
        \/ retrySettles(call, outcome, ok)

\* the Failed path for call: one assistant message with the processing-error
\* text right after the call's user message, and Idle
FailedPath(call) ==
    /\ Len(chatMessages') = Len(call.currentMessages) + 1
    /\ SubSeq(chatMessages', 1, Len(call.currentMessages)) = call.currentMessages
    /\ Last(call.currentMessages).role = "user"
    /\ Last(call.currentMessages).content = Trim(call.messageContent)
    /\ Last(chatMessages').role = "assistant"
    /\ Last(chatMessages').content = t(call.render.locale, "error.processing")
    /\ ~isLoading'
    /\ call \notin calls'

\* C9 as stated: a primary call that fails by a non-2xx status, a fetch
\* rejection or a body-read error takes the Failed path.
C9_FailuresTakeFailedPath ==
    [][\A call \in calls \ calls', outcome \in Outcomes :
          (/\ call.phase = "primary"
           /\ ~Is2xx(outcome) \/ BodyUnreadable(outcome)
           /\ SettleStep(call, outcome))
          => FailedPath(call)]_vars

\* the test URL is fetched for call in this step
RetryIssued(call) ==
    \E c \in calls' :
        /\ c.id = call.id /\ c.phase = "retry" /\ call.phase = "primary"
        /\ c.url = ReplaceWebhook(primaryWebhookUrl)

\* C9 amended: a primary call that fails by a non-2xx status or a fetch
\* rejection takes the Failed path (one assistant message with the localized
\* processing-error text after the user message, back to Idle); a body-read
\* error on a 2xx response is swallowed by the resolver, which yields the empty
\* string, and the submit goes to the retry instead, with nothing appended.
C9_ThrownFailuresTakeFailedPath ==
    [][\A call \in calls \ calls', outcome \in Outcomes :
          (call.phase = "primary" /\ SettleStep(call, outcome))
          => /\ ~Is2xx(outcome) => FailedPath(call)
             /\ BodyUnreadable(outcome) =>
                    /\ RetryIssued(call)
                    /\ chatMessages' = chatMessages /\ isLoading' = isLoading]_vars

\* a submit ended in the catch block: the log ends with the user message and
\* the processing-error message
C9_Witness ==
    /\ lastOp.op = "catch" /\ ~isLoading
    /\ Len(chatMessages) >= 2
    /\ Last(chatMessages).content = t(locale, "error.processing")
    /\ chatMessages[Len(chatMessages) - 1].role = "user"

\* C10: the test URL is fetched if and only if the primary call returned 2xx
\* and resolved to the empty string, and at most once per submit (a submit
\* issues at most two requests); when the retry rejects, returns non-2xx or
\* resolves to the empty string, the appended assistant message carries the
\* localized unavailable text, not the processing-error text.
C10_RetryOnceOnEmpty ==
    /\ [](\A c \in calls :
            /\ c.fetches <= 2
            /\ c.phase = "primary" =>
                  c.fetches = 1 /\ c.url = primaryWebhookUrl /\ ~c.primary.settled
            /\ c.phase = "retry" =>
                  /\ c.fetches = 2 /\ c.url = ReplaceWebhook(primaryWebhookUrl)
                  /\ c.primary.settled /\ c.primary.is2xx /\ c.primary.resolved = <<>>)
    /\ [][\A call \in calls \ calls', outcome \in Outcomes :
            SettleStep(call, outcome) =>
               /\ call.phase = "primary" =>
                     (RetryIssued(call) <=>
                         (Is2xx(outcome) /\ parseN8nResponse(outcome) = <<>>))
               /\ call.phase = "retry" =>
                     /\ \A c \in calls' : c.id # call.id
                     /\ (~Is2xx(outcome) \/ retryContent(outcome) = <<>>) =>
                           /\ chatMessages' =
                                 Append(call.currentMessages, Last(chatMessages'))
                           /\ Last(chatMessages').role = "assistant"
                           /\ Last(chatMessages').content =
                                 t(call.render.locale, "error.unavailable")
                           /\ Last(chatMessages').content #
                                 t(call.render.locale, "error.processing")]_vars

\* a retry failed too and the unavailable text was appended
C10_Witness ==
    /\ lastOp.op = "resolved" /\ calls = {}
    /\ chatMessages # <<>>
    /\ Last(chatMessages).content = t(locale, "error.unavailable")

ContextEntry(msg) ==
    [role |-> msg.role, content |-> msg.content, timestamp |-> msg.timestamp]

\* history is the trailing min(HistoryLimit, n) messages of log, oldest first
IsTrailingContext(history, log) ==
    LET n == Len(log)
        k == IF n < HistoryLimit THEN n ELSE HistoryLimit
    IN  /\ Len(history) = k
        /\ \A i \in 1..k : history[i] = ContextEntry(log[n - k + i])

\* C12: the conversationHistory of every outbound request, primary or retry,
\* is the trailing min(10, n) messages of the log of n messages it was built
\* from, oldest first, so it has at most 10 entries; the step that builds it
\* leaves that whole log in memory and, its write succeeding, in storage, and
\* the reply is appended to the whole log, whatever its length.
C12_HistoryIsTrailingTen ==
    /\ [](\A c \in calls :
             /\ IsTrailingContext(c.payload.conversationHistory, c.currentMessages)
             /\ Len(c.payload.conversationHistory) <= HistoryLimit)
    /\ [][/\ \A c \in calls' \ calls :
                /\ c.phase = "primary" =>
                      /\ chatMessages' = c.currentMessages
                      /\ IsTrailingContext(c.payload.conversationHistory,
                                           chatMessages')
                      /\ lastOp'.write = "ok" => Persisted' = c.currentMessages
                /\ c.phase = "retry" =>
                      /\ chatMessages' = chatMessages /\ storage' = storage
                      /\ \E call \in calls \ calls' :
                             call.id = c.id /\ call.payload = c.payload
          /\ \A call \in calls \ calls' :
                lastOp'.op \in {"resolved", "catch"} =>
                   /\ Len(chatMessages') = Len(call.currentMessages) + 1
                   /\ SubSeq(chatMessages', 1, Len(call.currentMessages))
                         = call.currentMessages]_vars

\* a request is pending whose log is longer than the history limit: its
\* context has 10 entries and both logs hold all the messages
C12_Witness ==
    \E c \in calls :
        /\ Len(c.currentMessages) > HistoryLimit
        /\ Len(c.payload.conversationHistory) = HistoryLimit
        /\ chatMessages = c.currentMessages
        /\ Persisted = chatMessages

\* C13: when at least 10 messages precede the new user message in the log,
\* all 10 of those preceding messages are in the context of the request, in
\* addition to the new message.
C13_TenPrecedingInContext ==
    \A c \in calls :
        LET log == c.currentMessages
            n == Len(log)
            history == c.payload.conversationHistory
        IN  n - 1 >= HistoryLimit =>
               /\ c.payload.message = log[n].content
               /\ \A i \in (n - HistoryLimit)..(n - 1) :
                      \E j \in DOMAIN history : history[j] = ContextEntry(log[i])

\* the characters of the body
BodySymbols == {Body[i] : i \in DOMAIN Body}

\* C14: the resolver is total: for every body (empty, malformed JSON, JSON of
\* any shape, plain text, one line or several) it returns a text made of
\* characters of the body, no error comes out of it in any form, and for the
\* empty body, or one that cannot be read, it returns the empty text.
C14_ResolverIsTotal ==
    Resolved =>
        /\ \A i \in DOMAIN assistantContentInner :
               assistantContentInner[i] \in BodySymbols
        /\ Body = <<>> => assistantContentInner = <<>>

\* a body that starts like JSON and is none was resolved to itself
C14_Witness ==
    /\ Resolved
    /\ Body = <<"{", "x">>
    /\ assistantContentInner = <<"{", "x">>

\* the documents that are one JSON object in which a content key holds a string
HoldsString(d, i) ==
    CandidateKeys[i] \in DOMAIN d.f /\ d.f[CandidateKeys[i]].t = "str"

StringObjects ==
    {d \in JsonDocs : d.t = "obj" /\ \E i \in DOMAIN CandidateKeys : HoldsString(d, i)}

\* the string held by the content key of highest priority that holds one
FirstString(d) ==
    d.f[CandidateKeys[CHOOSE i \in DOMAIN CandidateKeys :
                         /\ HoldsString(d, i)
                         /\ \A j \in 1..(i - 1) : ~HoldsString(d, j)]].s

KeyDocs == FlatDocs \cup PairDocs \cup NestedDocs

\* the depth-first search of C16: at each level the content keys in priority
\* order, a value being a string or a structure searched the same way; the
\* first non-empty content found
RECURSIVE DepthFirst(_)
DepthFirst(v) ==
    IF v.t = "str" THEN v.s
    ELSE IF v.t = "obj"
         THEN FirstNonEmpty([i \in DOMAIN CandidateKeys |->
                               IF CandidateKeys[i] \in DOMAIN v.f
                               THEN DepthFirst(v.f[CandidateKeys[i]])
                               ELSE <<>>])
    ELSE <<>>

RECURSIVE StringsFirst(_)
StringsFirst(v) ==
    IF v.t = "str" THEN v.s
    ELSE IF v.t = "obj"
         THEN IF \E i \in DOMAIN CandidateKeys : HoldsString(v, i)
              THEN FirstString(v)
              ELSE FirstNonEmpty([i \in DOMAIN CandidateKeys |->
                                    IF CandidateKeys[i] \in DOMAIN v.f
                                    THEN StringsFirst(v.f[CandidateKeys[i]])
                                    ELSE <<>>])
    ELSE <<>>

ItemLineSeqs == UNION {[1..n -> ItemDocs] : n \in 2..MaxLines}

ItemBody(ds) == JoinTexts([i \in DOMAIN ds |-> JsonDocText[ds[i]]], <<"\n">>)

\* c_1 c_2 ... c_n
ItemContents(ds) == JoinTexts([i \in DOMAIN ds |-> ds[i].f["content"].s], <<>>)

\* C17 as stated: for a body of two or more lines each shaped
\* {type: "item", content: c_i} the resolver yields c_1 c_2 ... c_n.
C17_ItemLinesConcatenated ==
    Resolved =>
        \A ds \in ItemLineSeqs :
            Body = ItemBody(ds) => assistantContentInner = ItemContents(ds)

\* C17 amended: for a body of two or more lines each shaped
\* {type: "item", content: c_i} the resolver yields the concatenation
\* c_1 c_2 ... c_n in line order if it is not empty; if every c_i is empty it
\* yields the raw body.
C17_ItemLinesConcatenatedUnlessEmpty ==
    Resolved =>
        \A ds \in ItemLineSeqs :
            Body = ItemBody(ds) =>
                assistantContentInner =
                    IF ItemContents(ds) # <<>> THEN ItemContents(ds) ELSE Body

\* the item lines a and b were resolved to "ab"
C17_Witness ==
    /\ Resolved
    /\ Body = ItemBody(<<Obj2("type", JStr(<<"item">>), "content", JStr(<<"a">>)),
                         Obj2("type", JStr(<<"item">>), "content", JStr(<<"b">>))>>)
    /\ assistantContentInner = <<"a", "b">>

\* the lines of the body as the newline-delimited stage sees them
BodyLines == SplitLines(Trim(Body))

Line(i) == Trim(BodyLines[i])

LineParses(i) == Line(i) # <<>> /\ JSONparseText(Line(i)) # SyntaxError

\* what a line that parses adds: the content of an item line, else the
\* content extracted from its document
ParsedContribution(i) ==
    LET doc == JSONparseText(Line(i))
    IN  IF Get(doc, "type") = JStr(<<"item">>) /\ IsString(Get(doc, "content"))
        THEN Get(doc, "content").s
        ELSE extractAssistantContent(doc)

\* a line that leaves the accumulator empty if it was: a blank line, or a
\* line that parses and adds nothing
Quiet(j) == Line(j) = <<>> \/ (LineParses(j) /\ ParsedContribution(j) = <<>>)

\* what line i adds to the result
Contribution(i) ==
    IF Line(i) = <<>> THEN <<>>
    ELSE IF LineParses(i) THEN ParsedContribution(i)
    ELSE IF \A j \in 1..(i - 1) : Quiet(j) THEN Line(i)
    ELSE <<>>

\* the body goes through the newline-delimited stage
NdjsonMode == Body # <<>> /\ wholeJson(Body) = <<>> /\ Len(BodyLines) > 1

\* C18: in newline-delimited mode a line that does not parse adds its text
\* (without the white space around it) only if nothing was accumulated when
\* it is reached; once something is accumulated the later lines that do not
\* parse add nothing, while the lines that parse are still concatenated in
\* line order.  (A result that stays empty gives the raw body.)
C18_UnparseableLineOnlyWhenEmpty ==
    (Resolved /\ NdjsonMode) =>
        LET expected == JoinTexts([i \in DOMAIN BodyLines |-> Contribution(i)], <<>>)
        IN  assistantContentInner = IF expected # <<>> THEN expected ELSE Body

\* the lines x, item b, y were resolved to "xb"
C18_Witness ==
    /\ Resolved
    /\ Body = <<"x", "\n">>
               \o JsonDocText[Obj2("type", JStr(<<"item">>), "content", JStr(<<"b">>))]
               \o <<"\n", " ", "y">>
    /\ assistantContentInner = <<"x", "b">>

\* nothing of the body parses: the whole text does not, and no line does
NothingParses ==
    /\ Body # <<>>
    /\ ~LooksLikeJson(Body) \/ JSONparseText(Body) = SyntaxError
    /\ \A i \in DOMAIN BodyLines : ~LineParses(i)

\* C19 as stated: for any body from which no structured content is
\* recovered, of one line or several, the resolver yields the raw text itself,
\* unchanged.
C19_RawTextWhenNothingParses ==
    (Resolved /\ NothingParses) => assistantContentInner = Body

\* C19 amended: for a body of which nothing parses, the resolver yields the
\* raw text itself, unchanged, if the text has one line (white space around it
\* not counting); if it has several lines the resolver yields its first line
\* only, without the white space around it.
C19_RawTextOfOneLine ==
    (Resolved /\ NothingParses) =>
        assistantContentInner = IF Len(BodyLines) = 1 THEN Body ELSE Line(1)

\* the plain text of two lines "x", " y" was resolved to "x"
C19_Witness ==
    /\ Resolved
    /\ Body = <<"x", "\n", " ", "y">>
    /\ assistantContentInner = <<"x">>

\* item has a string output field
HasOutput(item) ==
    item.t = "obj" /\ "output" \in DOMAIN item.f /\ item.f["output"].t = "str"

\* the output of the first element of the array that has a string output
FirstOutput(d) ==
    d.e[CHOOSE i \in DOMAIN d.e :
            HasOutput(d.e[i]) /\ \A j \in 1..(i - 1) : ~HasOutput(d.e[j])].f["output"].s

\* the per-key search over the elements in order: the first non-empty result
PerElement(d) == FirstNonEmpty([i \in DOMAIN d.e |-> StringsFirst(d.e[i])])

CookieLocale == getCookieValue(cookie, LOCALE_COOKIE_KEY)

\* the step taken is a call of setLocale
SetLocaleStep == lastOp'.op = "setLocale"

\* C21: a call of setLocale with a code outside the supported set leaves the
\* in-memory locale, the cookie and the local-storage entry as they were and
\* logs a warning naming the code.
C21_UnsupportedSelectionRejected ==
    [][(SetLocaleStep /\ selected'.arg \notin SupportedCodes)
        => /\ locale' = locale
           /\ cookie' = cookie
           /\ preferredLocale' = preferredLocale
           /\ warned' = selected'.arg]_vars

\* "it" was refused on a page whose cookie and local-storage entry hold codes
C21_Witness ==
    /\ lastOp = Op("setLocale", TRUE, "none")
    /\ selected.arg = "it"
    /\ warned = "it"
    /\ CookieLocale = "fr"
    /\ preferredLocale = "de"
    /\ locale = "fr"

\* the language part of a tag: what precedes its first '-'
LanguagePart(tag) == FirstPart(Chars[tag])

\* the language the browser reports, if it reports one
BrowserLanguage ==
    IF navigator.language # "" THEN navigator.language
    ELSE IF navigator.languages # <<>> THEN navigator.languages[1]
    ELSE Null

\* positions of the supported codes that share the browser's language part
SharingLanguage ==
    {i \in DOMAIN SUPPORTED_LOCALES :
        /\ BrowserLanguage # Null
        /\ LanguagePart(SUPPORTED_LOCALES[i]) = LanguagePart(BrowserLanguage)}

\* the priority order of the README: cookie, localStorage, browser, default
PriorityLocale ==
    IF \E i \in DOMAIN cookie :
           cookie[i].name = LOCALE_COOKIE_KEY /\ cookie[i].value \in SupportedCodes
    THEN (CHOOSE c \in SupportedCodes :
             \E i \in DOMAIN cookie :
                 cookie[i].name = LOCALE_COOKIE_KEY /\ cookie[i].value = c)
    ELSE IF preferredLocale \in SupportedCodes THEN preferredLocale
    ELSE IF BrowserLanguage \in SupportedCodes THEN BrowserLanguage
    ELSE IF SharingLanguage # {}
         THEN SUPPORTED_LOCALES[CHOOSE i \in SharingLanguage :
                                    \A j \in SharingLanguage : i <= j]
    ELSE DEFAULT_LOCALE

\* C22: once the provider's effect has run, the locale is the cookie's value
\* if that is a supported code, else the local-storage value if supported,
\* else the supported code equal to the browser language, else the first
\* supported code with the browser language's language part, else es-UY.
C22_LocaleByPriority ==
    (isInitialized /\ lastOp.op = "initEffect") => locale = PriorityLocale

\* the browser's pt-PT decided, past an unsupported cookie and an empty entry
C22_Witness ==
    /\ isInitialized
    /\ lastOp.op = "initEffect"
    /\ \E i \in DOMAIN cookie :
           cookie[i].name = LOCALE_COOKIE_KEY /\ cookie[i].value = "it"
    /\ preferredLocale = ""
    /\ navigator.language = "pt-PT"
    /\ locale = "pt-BR"

\* the locale a reload of the page would start with
ReloadLocale == initialLocale(cookie, preferredLocale, navigator)

\* C23: the last supported selection L is in the cookie, and in local storage
\* when the write succeeded, at the moment the in-memory locale becomes L, and
\* at every later point a reload of the page starts with L.
C23_SelectionSurvivesReload ==
    /\ [](selected.code # Null
            => /\ CookieLocale = selected.code
               /\ ReloadLocale = selected.code
               /\ selected.stored
                    => (preferredLocale = selected.code /\ locale = selected.code))
    /\ [][(SetLocaleStep /\ locale' # locale)
            => (CookieLocale' = locale' /\ preferredLocale' = locale')]_vars

\* "de" was selected on a page that has another cookie, its write succeeded,
\* and the page was loaded again
C23_Witness ==
    /\ selected = [code |-> "de", stored |-> TRUE, arg |-> "de"]
    /\ lastOp.op = "load"
    /\ locale = "de"
    /\ \E i \in DOMAIN cookie : cookie[i] = OtherCookie

\* C24: in every reachable state the in-memory locale is one of the five
\* supported codes.
C24_LocaleIsSupported == locale \in SupportedCodes

\* unsupported values in the cookie, the entry, the browser and the last
\* setLocale call
C24_Witness ==
    /\ \E i \in DOMAIN cookie :
           cookie[i].name = LOCALE_COOKIE_KEY /\ cookie[i].value = "it"
    /\ preferredLocale = "it"
    /\ BrowserLanguage = "it"
    /\ warned = "en-US"
    /\ isInitialized

\* C29: when localStorage.setItem throws inside setLocale, the code is applied
\* to the cookie, the local-storage entry and the in-memory locale or to none
\* of them, and no exception leaves setLocale.
C29_FailedWriteLeavesLocaleConsistent ==
    [][(SetLocaleStep /\ ~lastOp'.early /\ ~selected'.stored)
        => /\ \/ /\ CookieLocale' = selected'.code
                 /\ preferredLocale' = selected'.code
                 /\ locale' = selected'.code
              \/ /\ cookie' = cookie
                 /\ preferredLocale' = preferredLocale
                 /\ locale' = locale
           /\ lastOp'.write # "threw"]_vars

\* the step taken is a localStorage write of the guest's tab that succeeded
TabWrote == lastOp'.op \in {"setChatMessages", "clearChat"} /\ lastOp'.write = "ok"

\* C25: with two tabs on the persisted log, each write persists the whole
\* in-memory log of the tab that writes and leaves the other tab's in-memory
\* log as it was; so after tab B, loaded before tab A appended a message,
\* appends its own, the persisted log is B's log, without A's message.
C25_LastWriterWins ==
    /\ [][TabWrote => (Persisted' = chatMessages' /\ otherTab' = otherTab)]_vars
    /\ []((lastOp.op \in {"setChatMessages", "clearChat"} /\ lastOp.write = "ok")
            => \A i \in DOMAIN otherTab :
                  (\A j \in DOMAIN chatMessages : chatMessages[j] # otherTab[i])
                    => \A k \in DOMAIN Persisted : Persisted[k] # otherTab[i])

\* tab B, loaded before A's message was written, has just appended its own
C25_Witness ==
    /\ tab = "B"
    /\ lastOp = Op("setChatMessages", FALSE, "ok")
    /\ Len(otherTab) = 1 /\ otherTab[1].content = <<"a">>
    /\ Len(chatMessages) = 1 /\ chatMessages[1].content = <<"b">>
    /\ Persisted = chatMessages

\* C26: in every reachable state the messages of the log have pairwise
\* distinct ids, whatever the timing of submits and responses.
C26_DistinctIds ==
    \A i, j \in DOMAIN chatMessages :
        i # j => chatMessages[i].id # chatMessages[j].id

\* C27: whenever a webhook request of this client is in flight the loading
\* flag is true.
C27_LoadingWhileInFlight == InFlight > 0 => isLoading

\* C28: the resolver returns the empty string exactly when the body text is
\* empty or could not be read; every other body, {"output": ""} among them,
\* resolves to a non-empty string.
C28_EmptyOnlyForEmptyBody ==
    Resolved => (assistantContentInner = <<>> <=> Body = <<>>)

\* the body {"output":""} resolved to its own text
C28_Witness ==
    /\ Resolved
    /\ Body = ToText(JObj(Obj1("output", JStr(<<>>))))
    /\ assistantContentInner = Body
    /\ assistantContentInner # <<>>

\* C30: an updater passed to the setter of useLocalStorage is applied to the
\* most recently stored value: the assistant message appended after the await,
\* through the setter of the render that appended the user message, extends
\* the log that holds the user message.
C30_UpdaterSeesLatestValue ==
    [][lastOp'.op = "part001_reply"
        => /\ Len(chatMessages') = Len(chatMessages) + 1
           /\ SubSeq(chatMessages', 1, Len(chatMessages)) = chatMessages]_vars

====
